---- MODULE Spec2Model ----
(***************************************************************************)
(* tyght-map: a static type map.  TyghtMap<S> wraps a tuple S whose        *)
(* elements are indexed by their types.  The tuple is modelled as a        *)
(* sequence of slots [ty, val]; the traits that the macros implement per   *)
(* tuple length and per index are modelled as predicates over that         *)
(* sequence, and the methods as operators.  Tuple positions are 0-based as *)
(* in the source; slot i of the tuple is element i + 1 of the sequence.    *)
(***************************************************************************)
EXTENDS Integers, Sequences, FiniteSets, TLC

(* ---------------------------- bounds ----------------------------------- *)

\* The configured maximum tuple length the macros generate impls for
\* (8, 16 or 32 in macros.rs, chosen by feature flag), scaled down.
MaxSlots == 3

\* Number of distinct values a stored item can take.
NumVals == 2

\* One more type than there are generated lengths, so that a full map can
\* still be offered a type it does not hold.
NumTypes == MaxSlots + 1

Types == 1..NumTypes
Vals == 1..NumVals

(* -------------------------- program constants -------------------------- *)

\* usize::MAX, the NOT_FOUND sentinel of find_index.  It is only ever
\* compared with positions below LENGTH, so it is kept at the largest
\* integer the model checker carries.
USIZE_MAX == 2147483647

\* core::convert::Infallible, the Item type at index usize::MAX.  It is the
\* TypeId of no storable type.
Infallible == 0

(* ------------------------- Option and Result --------------------------- *)

None == <<>>
Some(x) == <<x>>

Ok(x) == <<"Ok", x>>
Err == <<"Err">>

\* Result::ok
Result_ok(r) == IF r[1] = "Ok" THEN Some(r[2]) ELSE None

Slot(T, v) == [ty |-> T, val |-> v]

(* ------------------------------ macros.rs ------------------------------ *)

\* impl_all!(m) calls m for every tuple length 0..MaxSlots.
impl_all(S) == Len(S) <= MaxSlots

(* ----------------------------- indexable.rs ---------------------------- *)

LENGTH(S) == Len(S)

into_ids(S) == [i \in 1..Len(S) |-> S[i].ty]

IntoTypeIds(S) == impl_all(S)

RECURSIVE find_index_loop(_, _, _)
find_index_loop(id, arr, i) ==
    IF i < Len(arr)
    THEN IF arr[i + 1] = id THEN i ELSE find_index_loop(id, arr, i + 1)
    ELSE USIZE_MAX

find_index_skip_first(T, S) == find_index_loop(T, into_ids(S), 1)

RECURSIVE find_index_loop_last(_, _, _, _)
find_index_loop_last(id, arr, i, found) ==
    IF i < Len(arr)
    THEN find_index_loop_last(id, arr, i + 1, IF arr[i + 1] = id THEN i ELSE found)
    ELSE found

find_index_last(T, S) == find_index_loop_last(T, into_ids(S), 0, USIZE_MAX)

find_index(T, S) == find_index_loop(T, into_ids(S), 0)

FindIndex(T, S) == IntoTypeIds(S)

FindIndex_INDEX(T, S) == find_index(T, S)

\* The two ItemMap types and the Source each maps from.
Map_Source(ItemMap, T) == IF ItemMap = "IdentityMap" THEN T ELSE Infallible

\* IdentityMap::map / map_ref / map_mut return their source; InfallibleMap's
\* source is uninhabited, so it is never applied.
Map_map(ItemMap, source) == source

\* Option::map(S::ItemMap::map)
Option_map(ItemMap, o) == IF o = None THEN None ELSE Some(Map_map(ItemMap, o[1]))

\* MaybeIndexable<INDEX> is implemented for INDEX below the tuple length and
\* for INDEX = usize::MAX, on every generated tuple length.
MaybeIndexable(S, INDEX) ==
    /\ impl_all(S)
    /\ \/ INDEX >= 0 /\ INDEX < Len(S)
       \/ INDEX = USIZE_MAX

MaybeIndexable_Item(S, INDEX) ==
    IF INDEX = USIZE_MAX THEN Infallible ELSE S[INDEX + 1].ty

MaybeIndexable_ItemMap(S, INDEX) ==
    IF INDEX = USIZE_MAX THEN "InfallibleMap" ELSE "IdentityMap"

\* Indexable<INDEX>: MaybeIndexable<INDEX, Error = Infallible>
Indexable(S, INDEX) == impl_all(S) /\ INDEX >= 0 /\ INDEX < Len(S)

head(S, INDEX) == SubSeq(S, 1, INDEX)
current(S, INDEX) == S[INDEX + 1]
tail(S, INDEX) == SubSeq(S, INDEX + 2, Len(S))

\* impl MaybeIndexable<{ $idx }>
idx_insert_by_index_prepend(S, INDEX, T, item) ==
    << Ok(current(S, INDEX).val), <<Slot(T, item)>> \o S >>

idx_insert_by_index(S, INDEX, T, item) ==
    << Ok(current(S, INDEX).val),
       head(S, INDEX) \o <<Slot(T, item)>> \o tail(S, INDEX) >>

idx_get_by_index(S, INDEX) == Ok(current(S, INDEX).val)

\* A mutable reference is the position of the slot it borrows.
idx_get_by_index_mut(S, INDEX) == Ok(INDEX)

idx_remove_by_index_rotated(S, INDEX) ==
    << Ok(current(S, INDEX).val), tail(S, INDEX) \o head(S, INDEX) >>

idx_remove_by_index(S, INDEX) ==
    << Ok(current(S, INDEX).val), head(S, INDEX) \o tail(S, INDEX) >>

\* impl MaybeIndexable<{ usize::MAX }>
max_insert_by_index_append(S, T, item) == << Err, S \o <<Slot(T, item)>> >>

max_insert_by_index_drop(S, T, item) == << Err, S >>

max_insert_by_index(S, T, item) == << Err, <<Slot(T, item)>> \o S >>

max_get_by_index_first(S) == IF S = <<>> THEN Err ELSE Ok(S[1].val)

max_get_by_index(S) == Err

max_get_by_index_mut(S) == Err

max_remove_by_index_unit(S) == << Err, <<>> >>

max_remove_by_index(S) == << Err, S >>

\* Dispatch on the const INDEX.
insert_by_index(S, INDEX, T, item) ==
    IF INDEX = USIZE_MAX THEN max_insert_by_index(S, T, item)
    ELSE idx_insert_by_index(S, INDEX, T, item)

get_by_index(S, INDEX) ==
    IF INDEX = USIZE_MAX THEN max_get_by_index(S) ELSE idx_get_by_index(S, INDEX)

get_by_index_mut(S, INDEX) ==
    IF INDEX = USIZE_MAX THEN max_get_by_index_mut(S)
    ELSE idx_get_by_index_mut(S, INDEX)

remove_by_index(S, INDEX) ==
    IF INDEX = USIZE_MAX THEN max_remove_by_index(S)
    ELSE idx_remove_by_index(S, INDEX)

\* The where-clause shared by TryInsert, TryGet and TryRemove:
\*   S: FindIndex<T>, S: MaybeIndexable<{ S::INDEX }>,
\*   S::ItemMap: Map<T, Source = S::Item>
fallible_bounds(T, S) ==
    /\ FindIndex(T, S)
    /\ MaybeIndexable(S, FindIndex_INDEX(T, S))
    /\ Map_Source(MaybeIndexable_ItemMap(S, FindIndex_INDEX(T, S)), T)
         = MaybeIndexable_Item(S, FindIndex_INDEX(T, S))

(* ------------------------------ insert.rs ------------------------------ *)

TryInsert(T, S) == fallible_bounds(T, S)

TryInsert_try_insert(S, T, item) ==
    LET INDEX == FindIndex_INDEX(T, S)
        r == insert_by_index(S, INDEX, T, item)
    IN  << Option_map(MaybeIndexable_ItemMap(S, INDEX), Result_ok(r[1])), r[2] >>

Insert_any_index(T, S) == FindIndex(T, S) /\ TryInsert(T, S)

Insert(T, S) ==
    /\ FindIndex(T, S)
    /\ FindIndex_INDEX(T, S) = USIZE_MAX
    /\ TryInsert(T, S)

Insert_insert(S, T, item) == TryInsert_try_insert(S, T, item)[2]

(* ------------------------------ try_get.rs ----------------------------- *)

TryGet(T, S) == fallible_bounds(T, S)

\* try_get reads the slot through the MaybeIndexable accessor and turns its
\* Result into an Option: `self.try_get_by_index()?` is get_by_index().ok().

TryGet_try_get(S, T) ==
    LET INDEX == FindIndex_INDEX(T, S)
    IN  Option_map(MaybeIndexable_ItemMap(S, INDEX), Result_ok(get_by_index(S, INDEX)))

TryGet_try_get_mut(S, T) ==
    LET INDEX == FindIndex_INDEX(T, S)
    IN  Option_map(MaybeIndexable_ItemMap(S, INDEX), Result_ok(get_by_index_mut(S, INDEX)))

(* ------------- TryRemove (imported by lib.rs from remove.rs) ----------- *)
\* The fallible counterpart of Remove: the same where-clause as TryInsert and
\* TryGet, over MaybeIndexable::remove_by_index; the map comes back unchanged
\* when the index is usize::MAX.

TryRemove(T, S) == fallible_bounds(T, S)

TryRemove_try_remove(S, T) ==
    LET INDEX == FindIndex_INDEX(T, S)
        r == remove_by_index(S, INDEX)
    IN  << Option_map(MaybeIndexable_ItemMap(S, INDEX), Result_ok(r[1])), r[2] >>

(* -------------------------------- get.rs ------------------------------- *)

RECURSIVE get_find_index_loop(_, _, _)
get_find_index_loop(id, arr, i) ==
    IF i < Len(arr)
    THEN IF arr[i + 1] = id THEN i ELSE get_find_index_loop(id, arr, i + 1)
    ELSE USIZE_MAX

get_find_index_skip_first(T, S) == get_find_index_loop(T, into_ids(S), 1)

get_find_index(T, S) == get_find_index_loop(T, into_ids(S), 0)

GetIndex(T, S) == IntoTypeIds(S)

GetIndex_INDEX(T, S) == get_find_index(T, S)

\* GetByIndex<INDEX> is implemented for INDEX below the tuple length only.
GetByIndex(S, INDEX) == impl_all(S) /\ INDEX >= 0 /\ INDEX < Len(S)

GetByIndex_Item(S, INDEX) == S[INDEX + 1].ty

GetByIndex_get_by_index_first(S, INDEX) == S[1].val

GetByIndex_get_by_index(S, INDEX) == current(S, INDEX).val

GetByIndex_get_by_index_mut_first(S, INDEX) == 0

GetByIndex_get_by_index_mut(S, INDEX) == INDEX

Get(T, S) ==
    /\ GetIndex(T, S)
    /\ GetByIndex(S, GetIndex_INDEX(T, S))
    /\ GetByIndex_Item(S, GetIndex_INDEX(T, S)) = T

Get_get(S, T) == GetByIndex_get_by_index(S, GetIndex_INDEX(T, S))

Get_get_mut(S, T) == GetByIndex_get_by_index_mut(S, GetIndex_INDEX(T, S))

(* ------------------------------ remove.rs ------------------------------ *)

RemoveByIndex(S, INDEX) == GetByIndex(S, INDEX)

RemoveByIndex_remove_by_index_next(S, INDEX) ==
    << current(S, INDEX).val, head(S, INDEX + 1) \o tail(S, INDEX + 1) >>

RemoveByIndex_remove_by_index(S, INDEX) ==
    << current(S, INDEX).val, head(S, INDEX) \o tail(S, INDEX) >>

Remove(T, S) ==
    /\ GetIndex(T, S)
    /\ RemoveByIndex(S, GetIndex_INDEX(T, S))
    /\ GetByIndex_Item(S, GetIndex_INDEX(T, S)) = T

Remove_remove_head(S, T) == RemoveByIndex_remove_by_index(S, 0)

Remove_remove(S, T) == RemoveByIndex_remove_by_index(S, GetIndex_INDEX(T, S))

(* -------------------------------- lib.rs ------------------------------- *)

MaybeContains(T, S) == TryInsert(T, S) /\ TryGet(T, S) /\ TryRemove(T, S)

Contains(T, S) == MaybeContains(T, S) /\ Get(T, S) /\ Remove(T, S)

Missing(T, S) == MaybeContains(T, S) /\ Insert(T, S)

\* core::mem::replace(dest, src) on the slot a mutable reference borrows.
mem_replace(S, place, item) ==
    << S[place + 1].val, [S EXCEPT ![place + 1].val = item] >>

\* size_of / align_of of the stored types: u32, i32, f32, u8, String
\* (64-bit target), and u64 for every further type.
size_of(T) ==
    CASE T = 1 -> 4 [] T = 2 -> 4 [] T = 3 -> 4 [] T = 4 -> 1 [] T = 5 -> 24
      [] OTHER -> 8

align_of(T) ==
    CASE T = 1 -> 4 [] T = 2 -> 4 [] T = 3 -> 4 [] T = 4 -> 1 [] T = 5 -> 8
      [] OTHER -> 8

RECURSIVE sum_of_sizes(_)
sum_of_sizes(S) ==
    IF S = <<>> THEN 0 ELSE size_of(S[1].ty) + sum_of_sizes(Tail(S))

RECURSIVE max_align(_)
max_align(S) ==
    IF S = <<>> THEN 1
    ELSE LET a == align_of(S[1].ty)
             m == max_align(Tail(S))
         IN  IF a > m THEN a ELSE m

\* std::mem::size_of_val(&map): TyghtMap<S>(S) has the layout of the tuple
\* S, whose size is a multiple of its alignment.  This is the smallest
\* layout the compiler can choose (fields ordered by alignment, trailing
\* padding only); no layout of S is smaller.
size_of_val(S) ==
    LET a == max_align(S)
        n == sum_of_sizes(S)
    IN  ((n + a - 1) \div a) * a

(* --------------------------- maybe_contains.rs ------------------------- *)
\* The Cons-list representation of the same map: Nil is the empty sequence,
\* Cons { head, tail } is a sequence whose first element is head.

\* impl MaybeContains<Item> for Nil
Nil_try_get == None

Nil_try_get_mut == None

Nil_try_insert(Item, item) == << None, <<Slot(Item, item)>> >>

Nil_try_remove == << None, <<>> >>

\* impl LocalMaybeContains<Item, true> for Cons<Item, T>
LocalTrue_try_get(L) == Some(L[1].val)

LocalTrue_try_get_mut(L) == Some(0)

LocalTrue_try_remove_keep(L) == << Some(L[1].val), L >>

LocalTrue_try_remove(L) == << Some(L[1].val), Tail(L) >>

LocalTrue_try_insert(L, Item, item) ==
    << Some(L[1].val), <<Slot(Item, item)>> \o Tail(L) >>

RECURSIVE MaybeContains_CONTAINS(_, _)
RECURSIVE MaybeContains_try_get(_, _)
RECURSIVE MaybeContains_try_get_mut(_, _)
RECURSIVE MaybeContains_try_remove(_, _)
RECURSIVE MaybeContains_try_insert(_, _, _)

\* impl LocalMaybeContains<Item, false> for Cons<H, T>
LocalFalse_try_get(L, Item) == MaybeContains_try_get(Tail(L), Item)

\* A mutable reference into the tail is one position further in the list.
LocalFalse_try_get_mut(L, Item) ==
    LET r == MaybeContains_try_get_mut(Tail(L), Item)
    IN  IF r = None THEN None ELSE Some(r[1] + 1)

LocalFalse_try_remove(L, Item) ==
    LET r == MaybeContains_try_remove(Tail(L), Item)
    IN  << r[1], <<L[1]>> \o r[2] >>

LocalFalse_try_insert(L, Item, item) ==
    LET r == MaybeContains_try_insert(Tail(L), Item, item)
    IN  << r[1], <<L[1]>> \o r[2] >>

\* impl MaybeContains<Item> for Nil / for Cons<H, T>, the latter choosing the
\* LocalMaybeContains impl by type_id::<Item>() == type_id::<H>().
MaybeContains_CONTAINS(L, Item) ==
    IF L = <<>> THEN FALSE
    ELSE IF Item = L[1].ty THEN TRUE
    ELSE MaybeContains_CONTAINS(Tail(L), Item)

MaybeContains_try_get(L, Item) ==
    IF L = <<>> THEN Nil_try_get
    ELSE IF Item = L[1].ty THEN LocalTrue_try_get(L)
    ELSE LocalFalse_try_get(L, Item)

MaybeContains_try_get_mut(L, Item) ==
    IF L = <<>> THEN Nil_try_get_mut
    ELSE IF Item = L[1].ty THEN LocalTrue_try_get_mut(L)
    ELSE LocalFalse_try_get_mut(L, Item)

MaybeContains_try_remove(L, Item) ==
    IF L = <<>> THEN Nil_try_remove
    ELSE IF Item = L[1].ty THEN LocalTrue_try_remove(L)
    ELSE LocalFalse_try_remove(L, Item)

MaybeContains_try_insert(L, Item, item) ==
    IF L = <<>> THEN Nil_try_insert(Item, item)
    ELSE IF Item = L[1].ty THEN LocalTrue_try_insert(L, Item, item)
    ELSE LocalFalse_try_insert(L, Item, item)

(* ----------------------- contains.rs / missing.rs ---------------------- *)

\* Contains<Item>: MaybeContains<Item, CONTAINS = true>
Contains_CONTAINS(L, Item) == MaybeContains_CONTAINS(L, Item) = TRUE

\* Missing<Item>: MaybeContains<Item, CONTAINS = false>
Missing_CONTAINS(L, Item) == MaybeContains_CONTAINS(L, Item) = FALSE

\* The write a caller makes through an Option<&mut Item>.
write_through(L, o, item) ==
    IF o = None THEN L ELSE [L EXCEPT ![o[1] + 1].val = item]

\* core::mem::replace through an Option<&mut Item>.
replace_through(L, o, item) ==
    IF o = None THEN << None, L >>
    ELSE << Some(L[o[1] + 1].val), [L EXCEPT ![o[1] + 1].val = item] >>

(* ------------------------------- state --------------------------------- *)

VARIABLES
    map,    \* the tuple held by the TyghtMap
    prev,   \* the tuple the last operation was called on
    cons,   \* the same map kept as a Cons list (maybe_contains.rs)
    cprev,  \* the Cons list the last operation was called on
    last    \* the last operation: its name, type argument, item and results

vars == <<map, prev, cons, cprev, last>>

\* ret is what the tuple implementation returned, cret what the Cons-list
\* implementation returned (before Contains unwraps it).
Call(op, T, item, ret, cret) ==
    [op |-> op, ty |-> T, item |-> item, ret |-> ret, cret |-> cret]

\* Calls are made one after another, as in the example's main: a call's
\* result is looked at and let go (a borrow of the map ends) before the next
\* call is made.
NoCallPending == last.op \in {"new", "none"}

\* TyghtMap::new()
Init ==
    /\ map = <<>>
    /\ prev = <<>>
    /\ cons = <<>>
    /\ cprev = <<>>
    /\ last = Call("new", 0, 0, None, None)

replace(T, item) ==
    /\ NoCallPending
    /\ Contains(T, map)
    /\ LET r == mem_replace(map, Get_get_mut(map, T), item)
           c == replace_through(cons, MaybeContains_try_get_mut(cons, T), item)
       IN  /\ map' = r[2]
           /\ cons' = c[2]
           /\ last' = Call("replace", T, item, Some(r[1]), c[1])
    /\ prev' = map
    /\ cprev' = cons

try_insert(T, item) ==
    /\ NoCallPending
    /\ MaybeContains(T, map)
    /\ LET r == TryInsert_try_insert(map, T, item)
           c == MaybeContains_try_insert(cons, T, item)
       IN  /\ map' = r[2]
           /\ cons' = c[2]
           /\ last' = Call("try_insert", T, item, r[1], c[1])
    /\ prev' = map
    /\ cprev' = cons

insert(T, item) ==
    /\ NoCallPending
    /\ Missing(T, map)
    /\ map' = Insert_insert(map, T, item)
    /\ LET c == MaybeContains_try_insert(cons, T, item)
       IN  /\ cons' = c[2]
           /\ last' = Call("insert", T, item, None, c[1])
    /\ prev' = map
    /\ cprev' = cons

get(T) ==
    /\ NoCallPending
    /\ Contains(T, map)
    /\ last' = Call("get", T, 0, Some(Get_get(map, T)), MaybeContains_try_get(cons, T))
    /\ map' = map
    /\ cons' = cons
    /\ prev' = map
    /\ cprev' = cons

try_get(T) ==
    /\ NoCallPending
    /\ MaybeContains(T, map)
    /\ last' = Call("try_get", T, 0, TryGet_try_get(map, T), MaybeContains_try_get(cons, T))
    /\ map' = map
    /\ cons' = cons
    /\ prev' = map
    /\ cprev' = cons

\* get_mut hands out &mut T; the caller writes item through it.
get_mut(T, item) ==
    /\ NoCallPending
    /\ Contains(T, map)
    /\ LET place == Get_get_mut(map, T)
           c == replace_through(cons, MaybeContains_try_get_mut(cons, T), item)
       IN  /\ map' = [map EXCEPT ![place + 1].val = item]
           /\ cons' = c[2]
           /\ last' = Call("get_mut", T, item, Some(map[place + 1].val), c[1])
    /\ prev' = map
    /\ cprev' = cons

\* try_get_mut hands out Option<&mut T>; the caller writes item through it
\* when it is Some.
try_get_mut(T, item) ==
    /\ NoCallPending
    /\ MaybeContains(T, map)
    /\ LET o == TryGet_try_get_mut(map, T)
           r == replace_through(map, o, item)
           c == replace_through(cons, MaybeContains_try_get_mut(cons, T), item)
       IN  /\ map' = write_through(map, o, item)
           /\ cons' = c[2]
           /\ last' = Call("try_get_mut", T, item, r[1], c[1])
    /\ prev' = map
    /\ cprev' = cons

remove(T) ==
    /\ NoCallPending
    /\ Contains(T, map)
    /\ LET r == Remove_remove(map, T)
           c == MaybeContains_try_remove(cons, T)
       IN  /\ map' = r[2]
           /\ cons' = c[2]
           /\ last' = Call("remove", T, 0, Some(r[1]), c[1])
    /\ prev' = map
    /\ cprev' = cons

try_remove(T) ==
    /\ NoCallPending
    /\ MaybeContains(T, map)
    /\ LET r == TryRemove_try_remove(map, T)
           c == MaybeContains_try_remove(cons, T)
       IN  /\ map' = r[2]
           /\ cons' = c[2]
           /\ last' = Call("try_remove", T, 0, r[1], c[1])
    /\ prev' = map
    /\ cprev' = cons

\* The result of the last call goes out of scope.
release ==
    /\ ~NoCallPending
    /\ last' = Call("none", 0, 0, None, None)
    /\ prev' = map
    /\ cprev' = cons
    /\ UNCHANGED <<map, cons>>

Next ==
    \/ \E T \in Types, item \in Vals : replace(T, item)
    \/ \E T \in Types, item \in Vals : try_insert(T, item)
    \/ \E T \in Types, item \in Vals : insert(T, item)
    \/ \E T \in Types : get(T)
    \/ \E T \in Types : try_get(T)
    \/ \E T \in Types, item \in Vals : get_mut(T, item)
    \/ \E T \in Types, item \in Vals : try_get_mut(T, item)
    \/ \E T \in Types : remove(T)
    \/ \E T \in Types : try_remove(T)
    \/ release

Spec == Init /\ [][Next]_vars

(* ------------------- the position resolver on its own ------------------ *)
\* find_index::<T, S>() is a const fn of the tuple type S and the query type
\* T alone; S may be any tuple the macros cover, repeated element types
\* included.  The values held play no part, so every slot holds the same one.

TupleTypes ==
    UNION {[1..n -> [ty : Types, val : {1}]] : n \in 0..MaxSlots}

InitFind ==
    /\ map \in TupleTypes
    /\ prev = map
    /\ cons = <<>>
    /\ cprev = <<>>
    /\ last = Call("new", 0, 0, None, None)

\* Evaluate FindIndex::<T>::INDEX (indexable.rs) and GetIndex::<T>::INDEX
\* (get.rs) for S; ret holds the two results in that order.
resolve(T) ==
    /\ NoCallPending
    /\ FindIndex(T, map)
    /\ GetIndex(T, map)
    /\ last' = Call("find_index", T, 0,
                    << FindIndex_INDEX(T, map), GetIndex_INDEX(T, map) >>, None)
    /\ UNCHANGED <<map, prev, cons, cprev>>

NextFind == \E T \in Types : resolve(T)

SpecFind == InitFind /\ [][NextFind]_vars

(* ------------------------------ helpers -------------------------------- *)

\* The positions of S whose slot has type T.
Positions(S, T) == {i \in 1..Len(S) : S[i].ty = T}

Stored(T, S) == Positions(S, T) # {}

TypeOK ==
    /\ map \in Seq([ty : Types, val : Vals])
    /\ prev \in Seq([ty : Types, val : Vals])
    /\ cons \in Seq([ty : Types, val : Vals])
    /\ cprev \in Seq([ty : Types, val : Vals])
    /\ Len(map) <= MaxSlots + 1
    /\ Len(cons) = Len(map)

(* ------------------------------ claims --------------------------------- *)

\* C1 (Uniqueness): in every reachable map no two slots hold the same type,
\* and right after insert or try_insert of T exactly one slot holds T and
\* the resolver points at it.
C1_Uniqueness ==
    /\ \A T \in Types : Cardinality(Positions(map, T)) <= 1
    /\ last.op \in {"insert", "try_insert"} =>
          /\ Cardinality(Positions(map, last.ty)) = 1
          /\ find_index(last.ty, map) # USIZE_MAX
          /\ find_index(last.ty, map) < Len(map)
          /\ map[find_index(last.ty, map) + 1].ty = last.ty

\* try_insert of a stored type has acted on a map of two or more slots.
C1_Witness ==
    /\ last.op = "try_insert"
    /\ Stored(last.ty, prev)
    /\ Len(map) >= 2

\* C2 (Insert/remove inverse): after insert(S, v) of an absent T, remove::<T>
\* of the result returns exactly (v, S), slot for slot; remove is available
\* on the result whenever S had room within the generated lengths.
C2_InsertRemoveInverse ==
    last.op = "insert" =>
        /\ Len(prev) < MaxSlots => Contains(last.ty, map)
        /\ Contains(last.ty, map) =>
              Remove_remove(map, last.ty) = <<last.item, prev>>

\* insert has acted on a map that already held two slots.
C2_Witness ==
    /\ last.op = "insert"
    /\ Len(prev) >= 2
    /\ Contains(last.ty, map)

\* C3 (Fallible/infallible equivalence): whenever the infallible
\* precondition holds the two tiers give the same answer.  Every call that
\* has acted returned what the other tier returns on the same map: get and
\* try_get (try_get = Some(get)), get_mut and try_get_mut, remove and
\* try_remove (try_remove = (Some(x), S') where remove = (x, S')), insert and
\* try_insert of an absent type (try_insert = (None, insert)).  Between
\* calls, on every reachable map and for every type, the get.rs resolver and
\* the indexable.rs resolver find the same position and the accessors of the
\* two tiers agree.
C3_TierEquivalence ==
    /\ last.op = "get" => TryGet_try_get(prev, last.ty) = last.ret
    /\ (last.op = "try_get" /\ Contains(last.ty, prev)) =>
          last.ret = Some(Get_get(prev, last.ty))
    /\ last.op = "get_mut" =>
          TryGet_try_get_mut(prev, last.ty) = Some(Get_get_mut(prev, last.ty))
    /\ (last.op = "try_get_mut" /\ Contains(last.ty, prev)) =>
          /\ last.ret = Some(Get_get(prev, last.ty))
          /\ map = write_through(prev, Some(Get_get_mut(prev, last.ty)), last.item)
    /\ last.op = "remove" =>
          TryRemove_try_remove(prev, last.ty) = << last.ret, map >>
    /\ (last.op = "try_remove" /\ Contains(last.ty, prev)) =>
          /\ last.ret = Some(Remove_remove(prev, last.ty)[1])
          /\ map = Remove_remove(prev, last.ty)[2]
    /\ last.op = "insert" =>
          TryInsert_try_insert(prev, last.ty, last.item) = << None, map >>
    /\ (last.op = "try_insert" /\ Missing(last.ty, prev)) =>
          /\ last.ret = None
          /\ map = Insert_insert(prev, last.ty, last.item)
    /\ NoCallPending =>
          \A T \in Types :
              /\ IntoTypeIds(map) => find_index(T, map) = get_find_index(T, map)
              /\ Contains(T, map) =>
                    /\ TryGet_try_get(map, T) = Some(Get_get(map, T))
                    /\ TryGet_try_get_mut(map, T) = Some(Get_get_mut(map, T))
                    /\ TryRemove_try_remove(map, T)
                          = << Some(Remove_remove(map, T)[1]),
                               Remove_remove(map, T)[2] >>
              /\ Missing(T, map) =>
                    \A item \in Vals :
                        TryInsert_try_insert(map, T, item)
                            = << None, Insert_insert(map, T, item) >>

\* try_remove has taken a stored type out of the middle of a three-slot map.
C3_Witness ==
    /\ last.op = "try_remove"
    /\ last.ret # None
    /\ Len(prev) >= 3
    /\ Contains(last.ty, prev)
    /\ find_index(last.ty, prev) = 1

\* C4 (Absence stability): try_remove::<T> on a map not holding T returns
\* None and the map with the same slots, values and order, in the tuple
\* implementation and in the Cons-list implementation alike.
C4_AbsenceStability ==
    /\ (last.op = "try_remove" /\ ~Stored(last.ty, prev)) =>
          /\ last.ret = None
          /\ map = prev
    /\ (last.op = "try_remove" /\ ~Stored(last.ty, cprev)) =>
          /\ last.cret = None
          /\ cons = cprev

\* try_remove of an absent type has acted on a map of two or more slots.
C4_Witness ==
    /\ last.op = "try_remove"
    /\ ~Stored(last.ty, prev)
    /\ ~Stored(last.ty, cprev)
    /\ Len(prev) >= 2
    /\ Len(cprev) >= 2

\* C5 (Replace identity): replace::<T>(v) returns the value T had, get::<T>
\* then yields v, and the slot count and every other slot are unchanged.
C5_ReplaceIdentity ==
    last.op = "replace" =>
        /\ Positions(prev, last.ty) # {}
        /\ \A p \in Positions(prev, last.ty) :
              /\ last.ret = Some(prev[p].val)
              /\ map[p] = Slot(last.ty, last.item)
              /\ \A i \in 1..Len(prev) : i # p => map[i] = prev[i]
        /\ Len(map) = Len(prev)
        /\ Get_get(map, last.ty) = last.item

\* replace has changed the value of a slot that is not the leading one.
C5_Witness ==
    /\ last.op = "replace"
    /\ Len(prev) >= 3
    /\ find_index(last.ty, prev) >= 1
    /\ last.ret # Some(last.item)

\* C6: try_insert of a stored type returns Some(old) and puts the item in
\* that type's slot, at the same position, with the same slot count and
\* every other slot unchanged.
C6_TryInsertReplaces ==
    (last.op = "try_insert" /\ Stored(last.ty, prev)) =>
        /\ \A p \in Positions(prev, last.ty) :
              /\ last.ret = Some(prev[p].val)
              /\ map[p] = Slot(last.ty, last.item)
              /\ \A i \in 1..Len(prev) : i # p => map[i] = prev[i]
        /\ Len(map) = Len(prev)

\* try_insert has replaced the value of a slot that is not the leading one.
C6_Witness ==
    /\ last.op = "try_insert"
    /\ Len(prev) >= 3
    /\ Stored(last.ty, prev)
    /\ find_index(last.ty, prev) >= 1
    /\ last.ret # Some(last.item)

\* C7: try_get and try_get_mut of a type that is not stored return None, on
\* every map they can be called on, the empty one included, and leave the
\* map as it was.
C7_AbsentIsNone ==
    /\ (last.op \in {"try_get", "try_get_mut"} /\ ~Stored(last.ty, prev)) =>
          /\ last.ret = None
          /\ map = prev
    /\ NoCallPending =>
          \A T \in Types :
              (MaybeContains(T, map) /\ ~Stored(T, map)) =>
                  /\ TryGet_try_get(map, T) = None
                  /\ TryGet_try_get_mut(map, T) = None

\* try_get of an absent type has acted on a map of two or more slots.
C7_Witness ==
    /\ last.op = "try_get"
    /\ ~Stored(last.ty, prev)
    /\ Len(prev) >= 2

\* C8 (Size additivity): the size of every reachable map equals the sum of
\* the sizes of its stored values.
C8_SizeAdditivity == size_of_val(map) = sum_of_sizes(map)

\* C9 (Capacity bound): no sequence of insert / try_insert calls produces a
\* map of more than MaxSlots slots.
C9_CapacityBound == Len(map) <= MaxSlots

C11_FallibleAlwaysUsable == \A T \in Types : MaybeContains(T, map)

\* The rest of a map once T's slot is taken out: every other slot, with its
\* value, in the original order.
Without(S, T) ==
    LET Other(slot) == slot.ty # T
    IN  SelectSeq(S, Other)

\* C12: a value written through get_mut::<T>() is the value later observed
\* for T: get::<T>() yields it, and remove::<T>() returns it together with
\* every other slot, value unchanged.
C12_GetMutObserved ==
    last.op = "get_mut" =>
        /\ Contains(last.ty, map)
        /\ Get_get(map, last.ty) = last.item
        /\ Remove_remove(map, last.ty) = << last.item, Without(prev, last.ty) >>

\* get_mut has been used to change the value of a slot that is not the
\* leading one, in a map of three slots.
C12_Witness ==
    /\ last.op = "get_mut"
    /\ Len(prev) >= 3
    /\ find_index(last.ty, prev) >= 1
    /\ last.ret # Some(last.item)

\* C13 (Position resolver): for every tuple type S and query type T,
\* find_index returns the smallest position whose element is T when T occurs
\* in S and usize::MAX otherwise; the sentinel is never a position of S; the
\* resolver of indexable.rs and the resolver of get.rs return the same.
C13_PositionResolver ==
    last.op = "find_index" =>
        LET r == last.ret[1]
            g == last.ret[2]
        IN  /\ r = g
            /\ Stored(last.ty, map) =>
                  /\ r # USIZE_MAX
                  /\ r >= 0 /\ r < Len(map)
                  /\ map[r + 1].ty = last.ty
                  /\ \A p \in Positions(map, last.ty) : r < p
            /\ ~Stored(last.ty, map) => r = USIZE_MAX
            /\ USIZE_MAX >= Len(map)
            /\ (r >= 0 /\ r < Len(map)) <=> Stored(last.ty, map)

\* The resolver has been asked for a type that occurs twice in S, the first
\* time not at the front.
C13_Witness ==
    /\ last.op = "find_index"
    /\ Cardinality(Positions(map, last.ty)) >= 2
    /\ last.ret[1] >= 1
    /\ last.ret[1] # USIZE_MAX

\* C14 (Insertion of an absent type prepends): insert and try_insert of a
\* type the map does not hold give the map [v] followed by the old slots in
\* their order with their values, and try_insert returns None.
C14_InsertPrepends ==
    (last.op \in {"insert", "try_insert"} /\ ~Stored(last.ty, prev)) =>
        /\ map = <<Slot(last.ty, last.item)>> \o prev
        /\ last.ret = None

\* try_insert of an absent type has acted on a map of two or more slots.
C14_Witness ==
    /\ last.op = "try_insert"
    /\ ~Stored(last.ty, prev)
    /\ Len(prev) >= 2

\* The type-to-value mapping a map holds, whatever its slot order.
TypeToValue(S) == {<<S[i].ty, S[i].val>> : i \in 1..Len(S)}

\* C15 (Slot order is unobservable): along every sequence of calls from the
\* empty map, the tuple implementation (new types prepended) and the
\* Cons-list implementation (new types appended at the tail) return the same
\* value to every call and hold the same type-to-value mapping; between
\* calls, presence and absence of every type is the same in both.
C15_OrderUnobservable ==
    /\ last.ret = last.cret
    /\ TypeToValue(map) = TypeToValue(cons)
    /\ Len(map) = Len(cons)
    /\ (NoCallPending /\ Len(map) <= MaxSlots) =>
          \A T \in Types :
              /\ Contains(T, map) <=> Contains_CONTAINS(cons, T)
              /\ Missing(T, map) <=> Missing_CONTAINS(cons, T)
              /\ TryGet_try_get(map, T) = MaybeContains_try_get(cons, T)

\* try_remove has taken a stored type out of a three-slot map whose slots
\* the two implementations keep in different orders.
C15_Witness ==
    /\ last.op = "try_remove"
    /\ last.ret # None
    /\ Len(prev) >= 3
    /\ prev # cprev
    /\ map # cons

\* Removing the type of the last slot, n times over.
RECURSIVE remove_all(_, _)
remove_all(S, n) ==
    IF n = 0 \/ S = <<>> THEN S
    ELSE remove_all(Remove_remove(S, S[Len(S)].ty)[2], n - 1)

\* C16 (Removal drops exactly one type): remove::<T>() (and try_remove of a
\* stored T) returns T's stored value and the map without T, every other
\* slot present with its value and relative order unchanged; removing the
\* stored types one by one ends in the empty map.
C16_RemoveDropsOne ==
    /\ (last.op \in {"remove", "try_remove"} /\ Stored(last.ty, prev)) =>
          /\ \A p \in Positions(prev, last.ty) : last.ret = Some(prev[p].val)
          /\ ~Stored(last.ty, map)
          /\ map = Without(prev, last.ty)
          /\ Len(map) = Len(prev) - 1
    /\ (NoCallPending /\ Len(map) <= MaxSlots) =>
          remove_all(map, Len(map)) = <<>>

\* remove has taken the middle slot out of a three-slot map.
C16_Witness ==
    /\ last.op = "remove"
    /\ Len(prev) >= 3
    /\ find_index(last.ty, prev) = 1
    /\ Len(map) = 2

\* C17 (Slot-count lifecycle): the map starts with 0 slots; the count goes
\* up by exactly 1 on insert / try_insert of an absent type, down by exactly
\* 1 on remove / try_remove of a stored type, and is unchanged by replace,
\* try_insert of a stored type, try_remove of an absent type and get /
\* get_mut / try_get / try_get_mut.
C17_SlotCount ==
    /\ last.op = "new" => Len(map) = 0
    /\ (last.op \in {"insert", "try_insert"} /\ ~Stored(last.ty, prev)) =>
          Len(map) = Len(prev) + 1
    /\ (last.op \in {"remove", "try_remove"} /\ Stored(last.ty, prev)) =>
          Len(map) = Len(prev) - 1
    /\ (last.op = "try_insert" /\ Stored(last.ty, prev)) => Len(map) = Len(prev)
    /\ (last.op = "try_remove" /\ ~Stored(last.ty, prev)) => Len(map) = Len(prev)
    /\ last.op \in {"replace", "get", "get_mut", "try_get", "try_get_mut"} =>
          Len(map) = Len(prev)
    /\ last.op = "insert" => ~Stored(last.ty, prev)
    /\ last.op = "remove" => Stored(last.ty, prev)

\* insert has taken a map from two slots to three.
C17_Witness ==
    /\ last.op = "insert"
    /\ Len(prev) = 2
    /\ Len(map) = 3

\* C18 (Remove-then-insert restores contents, not layout): after removing T
\* (stored at position p with value x) inserting x again gives a map with
\* the same type-to-value mapping as the original, T at position 0 and the
\* other slots in their original relative order; it equals the original
\* slot for slot exactly when p = 0.
C18_RemoveThenInsert ==
    last.op = "remove" =>
        /\ Missing(last.ty, map)
        /\ LET again == Insert_insert(map, last.ty, last.ret[1])
           IN  /\ TypeToValue(again) = TypeToValue(prev)
               /\ Len(again) = Len(prev)
               /\ again[1] = Slot(last.ty, last.ret[1])
               /\ Tail(again) = Without(prev, last.ty)
               /\ (again = prev) <=> (find_index(last.ty, prev) = 0)

\* remove has taken out a slot that was not the leading one, so inserting
\* it again changes the layout.
C18_Witness ==
    /\ last.op = "remove"
    /\ Len(prev) >= 3
    /\ find_index(last.ty, prev) >= 1
    /\ Insert_insert(map, last.ty, last.ret[1]) # prev

====
